---- MODULE Spec2Model ----
(***************************************************************************)
(* Crawl-and-match engine of the internal link finder.                     *)
(*                                                                         *)
(* Two program variants are modelled side by side:                         *)
(*   mode = "link"     internal_link_finder.py (main, crawl_and_search,    *)
(*                     fetch_and_search); internal_links_mapper.py has the *)
(*                     same crawl logic with a larger MAX_PAGES            *)
(*   mode = "keyword"  link_finder_streamlit.py (the Find Links handler,   *)
(*                     crawl_and_search, fetch_and_search)                 *)
(*                                                                         *)
(* The web is the environment: Web maps every page URL to what the server  *)
(* answers.  A URL is a record (host, path segments, trailing slash), an   *)
(* href is a record that keeps the way it was written (absolute,           *)
(* root-relative, relative, empty), and urljoin resolves one against the   *)
(* other as urllib does.                                                   *)
(***************************************************************************)
EXTENDS Naturals, Sequences, FiniteSets, TLC

\* ------------------------------------------------------------------ bounds
\* Longest page list the Sitemap Resolver hands to the handler.
MaxLen == 3
\* The page ceiling, scaled down from 500 (internal_link_finder.py:15) and
\* 1000 (internal_links_mapper.py:15) so that lists longer than it occur.
MAX_PAGES == 2
\* The crawl pool size, scaled down from 20 so that tasks queue behind it.
MAX_WORKERS_CRAWL == 2
\* The sitemap pool size, scaled down from 10.
MAX_WORKERS_SITEMAP == 2
\* The longest article text, in words and terminators.
MaxText == 4

\* ------------------------------------------------------------------- URLs
Url(h, p, s) == [host |-> h, path |-> p, slash |-> s]

HrefAbs(h, p, s) == [k |-> "abs", host |-> h, path |-> p, slash |-> s]
HrefRoot(p, s) == [k |-> "root", host |-> "", path |-> p, slash |-> s]
HrefRel(p, s) == [k |-> "rel", host |-> "", path |-> p, slash |-> s]
HrefEmpty == [k |-> "empty", host |-> "", path |-> <<>>, slash |-> FALSE]

Front(s) == IF Len(s) = 0 THEN s ELSE SubSeq(s, 1, Len(s) - 1)

\* urllib.parse.urljoin(base, href): an absolute href passes through, a
\* root-relative one replaces the path, a relative one is appended to the
\* directory of the base, an empty one gives the base.
urljoin(base, href) ==
    CASE href.k = "abs" -> Url(href.host, href.path, href.slash)
      [] href.k = "root" -> Url(base.host, href.path, href.slash)
      [] href.k = "rel" ->
            Url(base.host,
                (IF base.slash THEN base.path ELSE Front(base.path)) \o href.path,
                href.slash)
      [] OTHER -> base

\* f"{parsed.scheme}://{parsed.netloc}"
SiteRoot(url) == Url(url.host, <<>>, FALSE)

\* href.startswith('/')
StartsWithSlash(href) == href.k = "root"

\* ---------------------------------------------------------- the environment
T == Url("x.com", <<"t">>, TRUE)
U == Url("x.com", <<"u">>, TRUE)
PA == Url("x.com", <<"a">>, TRUE)
PB == Url("x.com", <<"b">>, TRUE)
PE == Url("x.com", <<"e">>, TRUE)

Anchor(h, txt, p) == [href |-> h, text |-> txt, inP |-> p]

Page(st, art, as, tx) ==
    [status |-> st, article |-> art, anchors |-> as, text |-> tx]

\* What each page URL answers.
\*   PA  200, article: a root-relative link to T in a paragraph, a link to U
\*       outside any paragraph, a link without href; text with both keywords
\*   PB  200, article: an absolute link to T in a paragraph, a root-relative
\*       link to T outside any paragraph, a link to /t without the slash
\*   PE  404 whose error body holds an article with a link to T outside
\*       any paragraph, a relative link t/ (which resolves to /e/t/), and
\*       text with a keyword
\*   T   the target page itself: 200, no article; its body holds a link to
\*       U in a paragraph and text with a keyword, outside any article
\* anchors and text are those of the article when the page has one, and of
\* the body otherwise.
Web(url) ==
    CASE url = PA ->
            Page(200, TRUE,
                 << Anchor(HrefRoot(<<"t">>, TRUE), "read more", TRUE),
                    Anchor(HrefAbs("x.com", <<"u">>, TRUE), "see also", FALSE),
                    Anchor(HrefEmpty, "top", TRUE) >>,
                 << "Best", "casino", "bonus", "today", "." >>)
      [] url = PB ->
            Page(200, TRUE,
                 << Anchor(HrefAbs("x.com", <<"t">>, TRUE), "guide", TRUE),
                    Anchor(HrefRoot(<<"t">>, TRUE), "home", FALSE),
                    Anchor(HrefRoot(<<"t">>, FALSE), "noslash", TRUE) >>,
                 << "Casino", "casino", "wins", "!", "no", "bonus" >>)
      [] url = PE ->
            Page(404, TRUE,
                 << Anchor(HrefRoot(<<"t">>, TRUE), "gone", FALSE),
                    Anchor(HrefRel(<<"t">>, TRUE), "deeper", TRUE) >>,
                 << "bonus", "." >>)
      [] OTHER ->
            Page(200, FALSE,
                 << Anchor(HrefRoot(<<"u">>, TRUE), "nav", TRUE) >>,
                 << "casino", "." >>)

PageUrls == {PA, PB, PE, T}

Keywords == << "casino", "bonus", "se" >>

\* How one fetch of a page can go: the server answers, the connection
\* fails, or the server stays silent.
NetChoices == {"answer", "refused", "silent"}

Range(s) == {s[i] : i \in 1..Len(s)}

\* s without the later occurrences of a repeated element
RECURSIVE Dedup(_)
Dedup(s) ==
    IF s = <<>> THEN <<>>
    ELSE LET front == Dedup(Front(s))
         IN IF s[Len(s)] \in Range(front) THEN front ELSE Append(front, s[Len(s)])

RECURSIVE SeqsUpTo(_, _)
SeqsUpTo(S, n) ==
    IF n = 0 THEN {<<>>}
    ELSE LET shorter == SeqsUpTo(S, n - 1)
         IN shorter \cup {Append(s, x) : s \in {t \in shorter : Len(t) = n - 1}, x \in S}

\* ------------------------------------------------------------ page matcher
\* requests.get / session.get once the call has returned: a refused
\* connection raises, and so does a silent server when the call carries
\* timeout=TIMEOUT (the call does not return otherwise, see Blocked).
Get(url, net) == [raised |-> net # "answer", page |-> Web(url)]

\* A call without timeout to a server that never answers does not return.
Blocked(net, hasTimeout) == net = "silent" /\ ~hasTimeout

EmptyDict == [t \in {} |-> <<>>]

Result(r, pr, why, ms) ==
    [raised |-> r, page_results |-> pr, reason |-> why, matched_sentences |-> ms]

NoResult == Result(FALSE, EmptyDict, "pending", EmptyDict)

\* links = [(urljoin(url, href), text) for link in article.find_all('a')]
ArticleLinks(url, page) ==
    [i \in 1..Len(page.anchors) |->
        [link_url |-> urljoin(url, page.anchors[i].href),
         link_text |-> page.anchors[i].text]]

\* results[target_url]: one (url, link_text) per link whose link_url is the target
LinkMatches(url, links, target_url) ==
    LET keep(l) == l.link_url = target_url
        kept == SelectSeq(links, keep)
    IN [i \in 1..Len(kept) |-> <<url, kept[i].link_text>>]

\* fetch_and_search without its except clause: the exception of the fetch
\* leaves the task.
fetch_and_search_link_NoExcept(url, net, target_urls_set) ==
    LET response == Get(url, net)
    IN IF response.raised THEN Result(TRUE, EmptyDict, "", EmptyDict)
       ELSE IF ~response.page.article THEN Result(FALSE, EmptyDict, "", EmptyDict)
       ELSE Result(FALSE,
                   [t \in target_urls_set |->
                       LinkMatches(url, ArticleLinks(url, response.page), t)],
                   "", EmptyDict)

\* fetch_and_search without the test for a missing article: the links of
\* the whole page are searched.
fetch_and_search_link_NoArticleTest(url, net, target_urls_set) ==
    LET response == Get(url, net)
    IN IF response.raised THEN Result(FALSE, EmptyDict, "", EmptyDict)
       ELSE Result(FALSE,
                   [t \in target_urls_set |->
                       LinkMatches(url, ArticleLinks(url, response.page), t)],
                   "", EmptyDict)

\* results built with one list shared by all targets (dict.fromkeys(targets,
\* [])): every target lists the matches of all targets.
fetch_and_search_link_SharedList(url, net, target_urls_set) ==
    LET response == Get(url, net)
        links == ArticleLinks(url, response.page)
        hit(l) == l.link_url \in target_urls_set
        kept == SelectSeq(links, hit)
    IN IF response.raised THEN Result(FALSE, EmptyDict, "", EmptyDict)
       ELSE IF ~response.page.article THEN Result(FALSE, EmptyDict, "", EmptyDict)
       ELSE Result(FALSE,
                   [t \in target_urls_set |->
                       [i \in 1..Len(kept) |-> <<url, kept[i].link_text>>]],
                   "", EmptyDict)

\* internal_link_finder.py fetch_and_search(url, target_urls_set)
fetch_and_search_link(url, net, target_urls_set) ==
    LET response == Get(url, net)
    IN IF response.raised THEN Result(FALSE, EmptyDict, "", EmptyDict)
       ELSE IF ~response.page.article THEN Result(FALSE, EmptyDict, "", EmptyDict)
       ELSE Result(FALSE,
                   [t \in target_urls_set |->
                       LinkMatches(url, ArticleLinks(url, response.page), t)],
                   "", EmptyDict)

Terminators == {".", "!", "?"}

\* re.IGNORECASE on the words of the vocabulary
Lower(w) == CASE w = "Casino" -> "casino" [] w = "Best" -> "best" [] OTHER -> w

FirstTerminator(text) ==
    IF \E i \in 1..Len(text) : text[i] \in Terminators
    THEN CHOOSE i \in 1..Len(text) :
            /\ text[i] \in Terminators
            /\ \A j \in 1..(i - 1) : text[j] \notin Terminators
    ELSE 0

\* re.findall(r'[^.!?]*\bkeyword\b[^.!?]*[.!?]', text): the matches do not
\* overlap, each runs from the end of the previous terminator through the
\* next one, and text after the last terminator matches nothing.
RECURSIVE FindAll(_, _)
FindAll(text, keyword) ==
    LET e == FirstTerminator(text)
    IN IF e = 0 THEN <<>>
       ELSE (IF \E i \in 1..(e - 1) : Lower(text[i]) = Lower(keyword)
             THEN <<SubSeq(text, 1, e)>> ELSE <<>>)
            \o FindAll(SubSeq(text, e + 1, Len(text)), keyword)

\* Without "if sentences:": every keyword gets an entry, an empty one too.
find_keywords_in_text_AllKeys(text, keywords) ==
    [k \in Range(keywords) |-> FindAll(text, k)]

\* link_finder_streamlit.py find_keywords_in_text(text, keywords)
find_keywords_in_text(text, keywords) ==
    [k \in {w \in Range(keywords) : FindAll(text, w) # <<>>} |-> FindAll(text, k)]

\* links_to_check: the root-relative hrefs of 'article p a', joined to the site root
LinksToCheck(url, page) ==
    LET keep(a) == page.article /\ a.inP /\ StartsWithSlash(a.href)
        kept == SelectSeq(page.anchors, keep)
    IN {urljoin(SiteRoot(url), kept[i].href) : i \in 1..Len(kept)}

\* ' '.join(p.get_text() for p in soup.select('article p'))
ArticleText(page) == IF page.article THEN page.text ELSE <<>>

\* link_finder_streamlit.py fetch_and_search(url, target_url, keywords)
fetch_and_search_keyword(url, net, target_url, keywords) ==
    LET response == Get(url, net)
    IN IF response.raised THEN Result(FALSE, EmptyDict, "fetch_error", EmptyDict)
       ELSE IF target_url \in LinksToCheck(url, response.page)
            THEN Result(FALSE, EmptyDict, "contains_target_link", EmptyDict)
       ELSE LET matched_sentences == find_keywords_in_text(ArticleText(response.page), keywords)
            IN IF DOMAIN matched_sentences # {}
               THEN Result(FALSE, EmptyDict, "matched", matched_sentences)
               ELSE Result(FALSE, EmptyDict, "no_keywords_found", EmptyDict)

\* -------------------------------------------------------------- the state
VARIABLES
    mode,             \* which program runs: "link" or "keyword"
    target_urls,      \* the target URLs entered (keyword mode: one)
    resolved,         \* the page list the Sitemap Resolver returned
    pc,               \* "main", "crawling", "done", "exit", "crashed"
    site_urls,        \* crawl_and_search's site_urls, after the ceiling
    warned,           \* the "Limiting crawl" warning was printed
    futures,          \* one task per submitted page: url, st, net, res
    requested,        \* the URLs of the page fetches issued, in order
    all_matches,      \* link mode: target -> list of (url, anchor text)
    matches,          \* keyword mode: url -> matched_sentences
    skipped_urls,     \* keyword mode: pages that contain the target link
    no_keyword_urls,  \* keyword mode: pages without keyword
    completed,        \* link mode: tasks the coordinator has taken
    pages_with_article, \* link mode: tasks whose page_results is not empty
    total_matches,    \* link mode: records merged
    report,           \* link mode: the counts of the closing log lines
    base_urls,        \* resolver: the site roots still to ask for their index
    index_results,    \* resolver: the index fetches made: base, net
    all_sitemap_urls, \* resolver: the sub-sitemap locations collected
    sm_futures,       \* resolver: one task per sub-sitemap: url, st, net, res
    sm_requested,     \* resolver: the sub-sitemap fetches issued, in order
    text,             \* keyword finder: the article text handed over
    matched_sentences \* keyword finder: keyword -> list of sentences

summaryVars == <<completed, pages_with_article, total_matches, report>>

resolverVars == <<base_urls, index_results, all_sitemap_urls, sm_futures, sm_requested>>

finderVars == <<text, matched_sentences>>

vars == <<mode, target_urls, resolved, pc, site_urls, warned, futures, requested,
          all_matches, matches, skipped_urls, no_keyword_urls,
          completed, pages_with_article, total_matches, report,
          base_urls, index_results, all_sitemap_urls, sm_futures, sm_requested,
          text, matched_sentences>>

target_url == target_urls[1]

\* No crawl has started: the locals of crawl_and_search do not exist yet.
NoCrawl ==
    /\ site_urls = <<>>
    /\ warned = FALSE
    /\ futures = <<>>
    /\ requested = <<>>
    /\ all_matches = EmptyDict
    /\ matches = EmptyDict
    /\ skipped_urls = <<>>
    /\ no_keyword_urls = <<>>
    /\ completed = 0
    /\ pages_with_article = 0
    /\ total_matches = 0
    /\ report = EmptyDict

\* find_keywords_in_text is not followed on its own.
NoFinder ==
    /\ text = <<>>
    /\ matched_sentences = EmptyDict

\* The handler holds the page list the resolver returned and is about to
\* crawl it; resolved ranges over the lists a resolver can return.
CrawlInit ==
    /\ mode \in {"link", "keyword"}
    /\ target_urls \in IF mode = "link" THEN {<<T>>, <<T, U>>} ELSE {<<T>>, <<U>>}
    /\ resolved \in SeqsUpTo(PageUrls, MaxLen)
    /\ pc = "main"
    /\ NoCrawl
    /\ NoFinder
    /\ base_urls = {}
    /\ index_results = <<>>
    /\ all_sitemap_urls = <<>>
    /\ sm_futures = <<>>
    /\ sm_requested = <<>>

\* ------------------------------------------------------- crawl coordinator
\* The ceiling cut one page too late: site_urls[:MAX_PAGES + 1]
Truncate_OffByOne(urls) ==
    IF Len(urls) > MAX_PAGES THEN SubSeq(urls, 1, MAX_PAGES + 1) ELSE urls

\* if len(site_urls) > MAX_PAGES: site_urls = site_urls[:MAX_PAGES]
Truncate(urls) ==
    IF Len(urls) > MAX_PAGES THEN SubSeq(urls, 1, MAX_PAGES) ELSE urls

\* site_urls = [url for url in site_urls if url != target_url]
ExcludeTarget(urls, target) ==
    LET other(u) == u # target IN SelectSeq(urls, other)

\* futures = {executor.submit(fetch_and_search, url, ...): url for url in site_urls}
Submit(urls) ==
    [i \in 1..Len(urls) |-> [url |-> urls[i], st |-> "queued", net |-> "", res |-> NoResult]]

\* internal_link_finder.py main() up to the submission of the tasks in
\* crawl_and_search: no pages ends the run, the ceiling is applied.
StartLink ==
    /\ pc = "main"
    /\ mode = "link"
    /\ IF resolved = <<>>
       THEN /\ pc' = "exit"
            /\ UNCHANGED <<site_urls, warned, futures, all_matches>>
       ELSE /\ warned' = (Len(resolved) > MAX_PAGES)
            /\ site_urls' = Truncate(resolved)
            /\ all_matches' = [t \in Range(target_urls) |-> <<>>]
            /\ futures' = Submit(site_urls')
            /\ pc' = "crawling"
    /\ UNCHANGED <<mode, target_urls, resolved, requested, matches,
                   skipped_urls, no_keyword_urls>>
    /\ UNCHANGED summaryVars
    /\ UNCHANGED resolverVars
    /\ UNCHANGED finderVars

\* link_finder_streamlit.py, the Find Links handler up to the submission of
\* the tasks in crawl_and_search: the target is filtered out, no ceiling.
StartKeyword ==
    /\ pc = "main"
    /\ mode = "keyword"
    /\ site_urls' = ExcludeTarget(resolved, target_url)
    /\ futures' = Submit(site_urls')
    /\ pc' = "crawling"
    /\ UNCHANGED <<mode, target_urls, resolved, warned, requested, all_matches,
                   matches, skipped_urls, no_keyword_urls>>
    /\ UNCHANGED summaryVars
    /\ UNCHANGED resolverVars
    /\ UNCHANGED finderVars

Running == {i \in 1..Len(futures) : futures[i].st = "running"}

\* A thread per task: the pool never makes a task wait.
IdleWorker_Unbounded(running, max_workers) == TRUE

\* ThreadPoolExecutor(max_workers=...): a queued task starts only while
\* fewer than max_workers tasks are held by workers.
IdleWorker(running, max_workers) == Cardinality(running) < max_workers

\* A pool worker takes the oldest queued task and issues its page fetch.
StartFetch(i) ==
    /\ pc = "crawling"
    /\ futures[i].st = "queued"
    /\ \A j \in 1..(i - 1) : futures[j].st # "queued"
    /\ IdleWorker(Running, MAX_WORKERS_CRAWL)
    /\ \E net \in NetChoices :
          futures' = [futures EXCEPT ![i].st = "running", ![i].net = net]
    /\ requested' = Append(requested, futures[i].url)
    /\ UNCHANGED <<mode, target_urls, resolved, pc, site_urls, warned, all_matches,
                   matches, skipped_urls, no_keyword_urls>>
    /\ UNCHANGED summaryVars
    /\ UNCHANGED resolverVars
    /\ UNCHANGED finderVars

\* session.get(url, timeout=TIMEOUT) in link mode, requests.get(url) in keyword mode
HasTimeout(m) == m = "link"

\* The task's fetch_and_search call, whatever the mode.
FetchAndSearch(m, url, net, targets) ==
    IF m = "link"
    THEN fetch_and_search_link(url, net, Range(targets))
    ELSE fetch_and_search_keyword(url, net, targets[1], Keywords)

\* The fetch of task i returns and fetch_and_search computes the task's result.
FinishFetch(i) ==
    /\ pc = "crawling"
    /\ futures[i].st = "running"
    /\ ~Blocked(futures[i].net, HasTimeout(mode))
    /\ futures' = [futures EXCEPT
                     ![i].st = "finished",
                     ![i].res = FetchAndSearch(mode, futures[i].url, futures[i].net,
                                               target_urls)]
    /\ UNCHANGED <<mode, target_urls, resolved, pc, site_urls, warned, requested,
                   all_matches, matches, skipped_urls, no_keyword_urls>>
    /\ UNCHANGED summaryVars
    /\ UNCHANGED resolverVars
    /\ UNCHANGED finderVars

\* The page's matches put in front of the list instead of at its end.
MergeLink_Prepend(am, page_results) ==
    [t \in DOMAIN am |->
        IF t \in DOMAIN page_results THEN page_results[t] \o am[t] ELSE am[t]]

\* A lost update: the list of a target is replaced by the page's matches,
\* as when two writers race on it.
MergeLink_Overwrite(am, page_results) ==
    [t \in DOMAIN am |->
        IF t \in DOMAIN page_results THEN page_results[t] ELSE am[t]]

\* for target_url, matches in page_results.items():
\*     all_matches[target_url].extend(matches)
MergeLink(am, page_results) ==
    [t \in DOMAIN am |->
        IF t \in DOMAIN page_results THEN am[t] \o page_results[t] ELSE am[t]]

\* matches[result['url']] = result['matched_sentences']
MergeKeyword(ms, url, res) ==
    IF res.reason = "matched"
    THEN [u \in DOMAIN ms \cup {url} |-> IF u = url THEN res.matched_sentences ELSE ms[u]]
    ELSE ms

\* sum of len(matches) over page_results.items()
RECURSIVE TotalLen(_)
TotalLen(d) ==
    IF DOMAIN d = {} THEN 0
    ELSE LET t == CHOOSE x \in DOMAIN d : TRUE
         IN Len(d[t]) + TotalLen([x \in DOMAIN d \ {t} |-> d[x]])

\* as_completed yields a finished task and the coordinator merges its result;
\* future.result() re-raises what the task raised, and a target missing from
\* all_matches is a KeyError.
Merge(i) ==
    /\ pc = "crawling"
    /\ futures[i].st = "finished"
    /\ futures' = [futures EXCEPT ![i].st = "merged"]
    /\ LET res == futures[i].res
       IN IF res.raised \/ ~(DOMAIN res.page_results \subseteq DOMAIN all_matches)
          THEN /\ pc' = "crashed"
               /\ UNCHANGED <<all_matches, matches, skipped_urls, no_keyword_urls>>
               /\ UNCHANGED <<completed, pages_with_article, total_matches>>
          ELSE /\ pc' = pc
               /\ completed' = IF mode = "link" THEN completed + 1 ELSE completed
               /\ pages_with_article' =
                     IF mode = "link" /\ DOMAIN res.page_results # {}
                     THEN pages_with_article + 1 ELSE pages_with_article
               /\ total_matches' =
                     IF mode = "link"
                     THEN total_matches + TotalLen(res.page_results)
                     ELSE total_matches
               /\ all_matches' = MergeLink(all_matches, res.page_results)
               /\ matches' = MergeKeyword(matches, futures[i].url, res)
               /\ skipped_urls' =
                     IF res.reason = "contains_target_link"
                     THEN Append(skipped_urls, futures[i].url) ELSE skipped_urls
               /\ no_keyword_urls' =
                     IF res.reason = "no_keywords_found"
                     THEN Append(no_keyword_urls, futures[i].url) ELSE no_keyword_urls
    /\ UNCHANGED <<mode, target_urls, resolved, site_urls, warned, requested, report>>
    /\ UNCHANGED resolverVars
    /\ UNCHANGED finderVars

\* The loop left at the first task that completed.
LoopExhausted_FirstCompleted(fs) ==
    Len(fs) = 0 \/ \E i \in 1..Len(fs) : fs[i].st = "merged"

\* for future in as_completed(futures): the loop ends when every task was
\* yielded and its body has run.
LoopExhausted(fs) == \A i \in 1..Len(fs) : fs[i].st = "merged"

\* internal_links_mapper.py, the closing log lines: "Pages with <article>
\* tag: {pages_with_article}/{len(site_urls)}", "Total links found:
\* {total_matches}"
SummaryLines(pages, with_article, total) ==
    [pages |-> pages, pages_with_article |-> with_article, total_matches |-> total]

\* The as_completed loop has yielded every task, the pool is shut down and
\* crawl_and_search returns (internal_links_mapper.py logs its summary).
Return ==
    /\ pc = "crawling"
    /\ LoopExhausted(futures)
    /\ pc' = "done"
    /\ report' = IF mode = "link"
                 THEN SummaryLines(Len(site_urls), pages_with_article, total_matches)
                 ELSE report
    /\ UNCHANGED <<mode, target_urls, resolved, site_urls, warned, futures, requested,
                   all_matches, matches, skipped_urls, no_keyword_urls,
                   completed, pages_with_article, total_matches>>
    /\ UNCHANGED resolverVars
    /\ UNCHANGED finderVars

CrawlNext ==
    \/ StartLink
    \/ StartKeyword
    \/ \E i \in 1..Len(futures) : StartFetch(i)
    \/ \E i \in 1..Len(futures) : FinishFetch(i)
    \/ \E i \in 1..Len(futures) : Merge(i)
    \/ Return

\* ------------------------------------------------------- the sitemap resolver
\* A second site and the sitemap files of the two sites.
V == Url("y.com", <<"v">>, TRUE)
S1 == Url("x.com", <<"wp-sitemap-posts-1.xml">>, FALSE)
S2 == Url("x.com", <<"wp-sitemap-pages-1.xml">>, FALSE)
S3 == Url("y.com", <<"wp-sitemap-posts-1.xml">>, FALSE)

\* f"{base_url}/wp-sitemap.xml"
IndexUrl(base_url) == Url(base_url.host, base_url.path \o <<"wp-sitemap.xml">>, FALSE)

\* The <sitemap><loc> entries of a site's index; x.com lists one twice.
SitemapIndex(index_url) ==
    IF index_url = IndexUrl(SiteRoot(T)) THEN <<S1, S2, S1>> ELSE <<S3>>

\* The <url><loc> entries of a sub-sitemap.
SitemapPages(url) ==
    CASE url = S1 -> <<PA, T>>
      [] url = S2 -> <<PA>>
      [] OTHER -> <<PB>>

\* A sitemap request is answered with valid XML ("answer"), fails (connection
\* error, non-2xx status or malformed XML: "invalid"), or is never answered.
SitemapNetChoices == {"answer", "invalid", "silent"}

\* The index failure reaches the caller.
get_sitemap_urls_NoExcept(base_url, net) ==
    [raised |-> net # "answer",
     sitemap_urls |-> IF net = "answer" THEN SitemapIndex(IndexUrl(base_url)) ELSE <<>>]

\* get_sitemap_urls(base_url): the entries of the index, [] on any exception
get_sitemap_urls(base_url, net) ==
    [raised |-> FALSE,
     sitemap_urls |-> IF net = "answer" THEN SitemapIndex(IndexUrl(base_url)) ELSE <<>>]

\* fetch_sitemap(url): the page URLs of a sub-sitemap, [] on any exception
fetch_sitemap(url, net) ==
    [raised |-> FALSE,
     urls |-> IF net = "answer" THEN SitemapPages(url) ELSE <<>>]

\* for url in target_urls: base_urls.add(f"{parsed.scheme}://{parsed.netloc}");
\* the keyword variant is given the homepage of the target's site.
BaseUrls(m, targets) ==
    IF m = "link" THEN {SiteRoot(t) : t \in Range(targets)} ELSE {SiteRoot(targets[1])}

\* The handler has read its inputs and is about to resolve the page list.
ResolverInit ==
    /\ mode \in {"link", "keyword"}
    /\ target_urls \in IF mode = "link" THEN {<<T>>, <<T, V>>} ELSE {<<T>>}
    /\ resolved = <<>>
    /\ pc = "index"
    /\ NoCrawl
    /\ NoFinder
    /\ base_urls = BaseUrls(mode, target_urls)
    /\ index_results = <<>>
    /\ all_sitemap_urls = <<>>
    /\ sm_futures = <<>>
    /\ sm_requested = <<>>

\* One pass of "for base_url in base_urls": the index of a site not yet asked
\* is fetched (a set is iterated in no fixed order) and its entries are
\* appended; a call without timeout to a silent server never returns.
GetSitemapUrls(base_url) ==
    /\ pc = "index"
    /\ base_url \in base_urls
    /\ \E net \in SitemapNetChoices :
          LET r == get_sitemap_urls(base_url, net)
          IN /\ index_results' = Append(index_results, [base |-> base_url, net |-> net])
             /\ IF Blocked(net, HasTimeout(mode))
                THEN /\ pc' = "hung"
                     /\ UNCHANGED <<base_urls, all_sitemap_urls>>
                ELSE IF r.raised
                THEN /\ pc' = "crashed"
                     /\ UNCHANGED <<base_urls, all_sitemap_urls>>
                ELSE /\ pc' = pc
                     /\ base_urls' = base_urls \ {base_url}
                     /\ all_sitemap_urls' = all_sitemap_urls \o r.sitemap_urls
    /\ UNCHANGED <<mode, target_urls, resolved, sm_futures, sm_requested>>
    /\ UNCHANGED <<site_urls, warned, futures, requested, all_matches, matches,
                   skipped_urls, no_keyword_urls>>
    /\ UNCHANGED summaryVars
    /\ UNCHANGED finderVars

NoUrls == [raised |-> FALSE, urls |-> <<>>]

\* One task for each distinct location: a repeated entry is fetched once.
SubmitSitemaps_ByUrl(sitemap_urls) ==
    [i \in 1..Len(Dedup(sitemap_urls)) |->
        [url |-> Dedup(sitemap_urls)[i], st |-> "queued", net |-> "", res |-> NoUrls]]

\* {executor.submit(fetch_sitemap, url): url for url in sitemap_urls}: one
\* task per entry, the dict being keyed by the future
SubmitSitemaps(sitemap_urls) ==
    [i \in 1..Len(sitemap_urls) |->
        [url |-> sitemap_urls[i], st |-> "queued", net |-> "", res |-> NoUrls]]

\* fetch_sitemap_urls(all_sitemap_urls) opens its pool and submits the tasks.
OpenSitemapPool ==
    /\ pc = "index"
    /\ base_urls = {}
    /\ pc' = "sitemaps"
    /\ sm_futures' = SubmitSitemaps(all_sitemap_urls)
    /\ UNCHANGED <<mode, target_urls, resolved, base_urls, index_results,
                   all_sitemap_urls, sm_requested>>
    /\ UNCHANGED <<site_urls, warned, futures, requested, all_matches, matches,
                   skipped_urls, no_keyword_urls>>
    /\ UNCHANGED summaryVars
    /\ UNCHANGED finderVars

SitemapRunning == {i \in 1..Len(sm_futures) : sm_futures[i].st = "running"}

\* A worker of the sitemap pool takes the oldest queued task and issues its
\* request.
StartSitemapFetch(i) ==
    /\ pc = "sitemaps"
    /\ sm_futures[i].st = "queued"
    /\ \A j \in 1..(i - 1) : sm_futures[j].st # "queued"
    /\ IdleWorker(SitemapRunning, MAX_WORKERS_SITEMAP)
    /\ \E net \in SitemapNetChoices :
          sm_futures' = [sm_futures EXCEPT ![i].st = "running", ![i].net = net]
    /\ sm_requested' = Append(sm_requested, sm_futures[i].url)
    /\ UNCHANGED <<mode, target_urls, resolved, pc, base_urls, index_results,
                   all_sitemap_urls>>
    /\ UNCHANGED <<site_urls, warned, futures, requested, all_matches, matches,
                   skipped_urls, no_keyword_urls>>
    /\ UNCHANGED summaryVars
    /\ UNCHANGED finderVars

\* The request of task i returns and fetch_sitemap computes the task's list.
FinishSitemapFetch(i) ==
    /\ pc = "sitemaps"
    /\ sm_futures[i].st = "running"
    /\ ~Blocked(sm_futures[i].net, HasTimeout(mode))
    /\ sm_futures' = [sm_futures EXCEPT
                        ![i].st = "finished",
                        ![i].res = fetch_sitemap(sm_futures[i].url, sm_futures[i].net)]
    /\ UNCHANGED <<mode, target_urls, resolved, pc, base_urls, index_results,
                   all_sitemap_urls, sm_requested>>
    /\ UNCHANGED <<site_urls, warned, futures, requested, all_matches, matches,
                   skipped_urls, no_keyword_urls>>
    /\ UNCHANGED summaryVars
    /\ UNCHANGED finderVars

\* as_completed yields a finished task: site_urls.extend(future.result())
MergeSitemap(i) ==
    /\ pc = "sitemaps"
    /\ sm_futures[i].st = "finished"
    /\ sm_futures' = [sm_futures EXCEPT ![i].st = "merged"]
    /\ IF sm_futures[i].res.raised
       THEN pc' = "crashed" /\ UNCHANGED resolved
       ELSE pc' = pc /\ resolved' = resolved \o sm_futures[i].res.urls
    /\ UNCHANGED <<mode, target_urls, base_urls, index_results, all_sitemap_urls,
                   sm_requested>>
    /\ UNCHANGED <<site_urls, warned, futures, requested, all_matches, matches,
                   skipped_urls, no_keyword_urls>>
    /\ UNCHANGED summaryVars
    /\ UNCHANGED finderVars

\* Every task was yielded, the pool is shut down and fetch_sitemap_urls
\* returns site_urls to the handler.
ResolverReturn ==
    /\ pc = "sitemaps"
    /\ LoopExhausted(sm_futures)
    /\ pc' = "resolved"
    /\ UNCHANGED <<mode, target_urls, resolved>>
    /\ UNCHANGED resolverVars
    /\ UNCHANGED <<site_urls, warned, futures, requested, all_matches, matches,
                   skipped_urls, no_keyword_urls>>
    /\ UNCHANGED summaryVars
    /\ UNCHANGED finderVars

ResolverNext ==
    \/ \E b \in base_urls : GetSitemapUrls(b)
    \/ OpenSitemapPool
    \/ \E i \in 1..Len(sm_futures) : StartSitemapFetch(i)
    \/ \E i \in 1..Len(sm_futures) : FinishSitemapFetch(i)
    \/ \E i \in 1..Len(sm_futures) : MergeSitemap(i)
    \/ ResolverReturn

\* ------------------------------------------------------- the keyword finder
\* The words and terminators an article text is made of.
TextWords == {"casino", "Casino", "bonus", "wins", ".", "!", "?"}

\* fetch_and_search is about to call find_keywords_in_text(text, keywords)
\* on the text of some article.
FinderInit ==
    /\ mode = "keyword"
    /\ target_urls = <<T>>
    /\ resolved = <<>>
    /\ pc = "text"
    /\ NoCrawl
    /\ base_urls = {}
    /\ index_results = <<>>
    /\ all_sitemap_urls = <<>>
    /\ sm_futures = <<>>
    /\ sm_requested = <<>>
    /\ text \in SeqsUpTo(TextWords, MaxText)
    /\ matched_sentences = EmptyDict

\* matched_sentences = find_keywords_in_text(text, keywords)
FindKeywords ==
    /\ pc = "text"
    /\ pc' = "found"
    /\ matched_sentences' = find_keywords_in_text(text, Keywords)
    /\ UNCHANGED <<mode, target_urls, resolved, text>>
    /\ UNCHANGED <<site_urls, warned, futures, requested, all_matches, matches,
                   skipped_urls, no_keyword_urls>>
    /\ UNCHANGED summaryVars
    /\ UNCHANGED resolverVars

\* A run follows the handler either through the resolution of the page list
\* or, from a list the resolver returned, through the crawl; or it follows
\* one call of the keyword finder.
Init == CrawlInit \/ ResolverInit \/ FinderInit

Next == CrawlNext \/ ResolverNext \/ FindKeywords

Spec == Init /\ [][Next]_vars

\* The pool's threads and the coordinating thread all keep running.
FairSpec == Spec /\ WF_vars(Next)
\* ------------------------------------------------------------- properties
Min(a, b) == IF a < b THEN a ELSE b

\* A sequence read as a multiset.
BagOf(s) == [x \in Range(s) |-> Cardinality({i \in 1..Len(s) : s[i] = x})]

Count(s, x) == Cardinality({i \in 1..Len(s) : s[i] = x})

Started == pc \in {"crawling", "done", "crashed"}

Fetched(i) == futures[i].st \in {"finished", "merged"}

\* What a task contributes to target t when its page answers.
AnswerRecords(url, t) ==
    LET pr == fetch_and_search_link(url, "answer", Range(target_urls)).page_results
    IN IF t \in DOMAIN pr THEN pr[t] ELSE <<>>

RECURSIVE RecordsOver(_, _)
RecordsOver(urls, t) ==
    IF urls = <<>> THEN <<>>
    ELSE AnswerRecords(Head(urls), t) \o RecordsOver(Tail(urls), t)

\* The URLs of the tasks whose fetch did not fail, in submission order.
AnsweredUrls ==
    LET ok(f) == f.net = "answer"
        kept == SelectSeq(futures, ok)
    IN [i \in 1..Len(kept) |-> kept[i].url]

\* C1: in link mode a page list longer than MAX_PAGES is cut to its first
\* MAX_PAGES pages, in input order, with a warning; a list within the ceiling
\* is submitted whole without a warning; and the fetches issued are always a
\* prefix of the input no longer than MAX_PAGES.
C1_CeilingKeepsFirstPages ==
    (mode = "link" /\ Started) =>
        /\ Len(futures) = Min(Len(resolved), MAX_PAGES)
        /\ \A i \in 1..Len(futures) : futures[i].url = resolved[i]
        /\ warned = (Len(resolved) > MAX_PAGES)
        /\ Len(requested) <= MAX_PAGES
        /\ \A k \in 1..Len(requested) : requested[k] = resolved[k]

\* A link-mode crawl of a list longer than the ceiling has returned: the
\* warning was given and exactly MAX_PAGES pages were fetched.
C1_Witness ==
    /\ mode = "link"
    /\ pc = "done"
    /\ Len(resolved) > MAX_PAGES
    /\ warned
    /\ Len(requested) = MAX_PAGES

\* C2: the number of page fetches issued in a crawl pass never exceeds the
\* page ceiling, in keyword mode as in link mode.
C2_FetchesWithinCeiling == Len(requested) <= MAX_PAGES

\* C3: failed fetches (connection error, timeout) stay local: the failed
\* page gets the empty outcome (link mode) or fetch_error (keyword mode), no
\* exception reaches the coordinator, and when the crawl returns every
\* submitted page was fetched and merged and the result holds exactly what
\* the fetches that did not fail contribute.
C3_FailureIsolated ==
    /\ pc # "crashed"
    /\ \A i \in 1..Len(futures) :
          (Fetched(i) /\ futures[i].net # "answer") =>
              /\ ~futures[i].res.raised
              /\ futures[i].res.page_results = EmptyDict
              /\ futures[i].res.matched_sentences = EmptyDict
              /\ mode = "keyword" => futures[i].res.reason = "fetch_error"
    /\ pc = "done" =>
          /\ requested = site_urls
          /\ \A i \in 1..Len(futures) : futures[i].st = "merged"
          /\ mode = "link" =>
                /\ DOMAIN all_matches = Range(target_urls)
                /\ \A t \in Range(target_urls) :
                      BagOf(all_matches[t]) = BagOf(RecordsOver(AnsweredUrls, t))
          /\ mode = "keyword" =>
                matches =
                   [u \in {v \in Range(AnsweredUrls) :
                              fetch_and_search_keyword(v, "answer", target_url, Keywords).reason
                                 = "matched"} |->
                       fetch_and_search_keyword(u, "answer", target_url, Keywords).matched_sentences]

\* A crawl has returned in which one fetch failed and another page, fetched
\* after it was submitted beside the failing one, gave a match.
C3_Witness ==
    /\ pc = "done"
    /\ \E i, j \in 1..Len(futures) :
          /\ futures[i].net # "answer"
          /\ futures[j].net = "answer"
          /\ \/ mode = "link" /\ AnswerRecords(futures[j].url, T) # <<>>
             \/ mode = "keyword" /\ futures[j].res.reason = "matched"

\* C4: the crawl always completes: every run reaches the return of
\* crawl_and_search (or the early exit of main on an empty page list).
C4_CrawlCompletes == (pc = "main") ~> (pc \in {"done", "exit"})

\* C5: in link mode a target URL that is among the resolved pages is never
\* fetched.
C5_TargetNeverFetched ==
    mode = "link" => \A k \in 1..Len(requested) : requested[k] \notin Range(target_urls)

\* The article of the page at url holds a link that resolves to target.
ArticleLinksTo(url, target) ==
    /\ Web(url).article
    /\ \E k \in 1..Len(Web(url).anchors) : urljoin(url, Web(url).anchors[k].href) = target

\* C6: in keyword mode a successfully fetched page whose article links to the
\* target, by a root-relative or an absolute href, is classified
\* contains_target_link and never appears in the matches.
C6_LinkingPageSkipped ==
    mode = "keyword" =>
        \A i \in 1..Len(futures) :
            (/\ Fetched(i)
             /\ futures[i].net = "answer"
             /\ Web(futures[i].url).status = 200
             /\ ArticleLinksTo(futures[i].url, target_url))
            => /\ futures[i].res.reason = "contains_target_link"
               /\ futures[i].url \notin DOMAIN matches

Is2xx(status) == status >= 200 /\ status < 300

\* The records the specification lists for target t over the pages urls: one
\* per anchor of the article of a page that answered with a 2xx status.
RECURSIVE SpecRecords(_, _, _)
SpecRecords(urls, okUrls, t) ==
    IF urls = <<>> THEN <<>>
    ELSE (IF Head(urls) \in okUrls /\ Is2xx(Web(Head(urls)).status) /\ Web(Head(urls)).article
          THEN LinkMatches(Head(urls), ArticleLinks(Head(urls), Web(Head(urls))), t)
          ELSE <<>>)
         \o SpecRecords(Tail(urls), okUrls, t)

\* C7: the link-mode result has exactly the targets as keys, and under each
\* target one record per matching anchor of each crawled page whose fetch
\* succeeded and that has an article.
C7_ExactRecords ==
    (mode = "link" /\ pc = "done") =>
        /\ DOMAIN all_matches = Range(target_urls)
        /\ \A t \in Range(target_urls) :
              BagOf(all_matches[t])
                 = BagOf(SpecRecords(Dedup(site_urls), Range(AnsweredUrls), t))

\* C8: a page answered with a non-2xx status is a fetch failure: no match
\* record in link mode, fetch_error in keyword mode.
C8_Non2xxIsFetchError ==
    \A i \in 1..Len(futures) :
        (Fetched(i) /\ futures[i].net = "answer" /\ ~Is2xx(Web(futures[i].url).status))
        => /\ mode = "link" => \A t \in DOMAIN futures[i].res.page_results :
                                   futures[i].res.page_results[t] = <<>>
           /\ mode = "keyword" => futures[i].res.reason = "fetch_error"

\* C9: in one crawl pass no page URL is fetched twice, and when the crawl
\* returns every URL of the crawl input was fetched exactly once.
C9_EachUrlFetchedOnce ==
    /\ \A u \in Range(requested) : Count(requested, u) = 1
    /\ pc = "done" => \A u \in Range(site_urls) : Count(requested, u) = 1

\* The keyword-mode result of crawling the pages urls when every fetch answers.
KeywordResultOf(urls) ==
    [u \in {v \in Range(urls) :
               fetch_and_search_keyword(v, "answer", target_url, Keywords).reason = "matched"} |->
        fetch_and_search_keyword(u, "answer", target_url, Keywords).matched_sentences]

\* C10: a crawl in which every fetch answers returns, for a page list with
\* duplicates, the result of crawling the deduplicated list.
C10_DuplicatesIdempotent ==
    (pc = "done" /\ \A i \in 1..Len(futures) : futures[i].net = "answer") =>
        /\ mode = "link" =>
              \A t \in Range(target_urls) :
                  BagOf(all_matches[t]) = BagOf(RecordsOver(Truncate(Dedup(resolved)), t))
        /\ mode = "keyword" =>
              matches = KeywordResultOf(ExcludeTarget(Dedup(resolved), target_url))
\* The records the merged tasks returned for target t, in submission order
\* of the tasks 1..n.
RECURSIVE MergedRecords(_, _)
MergedRecords(n, t) ==
    IF n = 0 THEN <<>>
    ELSE MergedRecords(n - 1, t)
         \o (IF futures[n].st = "merged" /\ t \in DOMAIN futures[n].res.page_results
             THEN futures[n].res.page_results[t] ELSE <<>>)

MergedMatched == {i \in 1..Len(futures) :
                     futures[i].st = "merged" /\ futures[i].res.reason = "matched"}

\* C11: whatever the interleaving of the workers, the aggregate holds exactly
\* the values the merged tasks returned, none lost and none duplicated, so
\* the returned result read as a multiset per target (a mapping per page in
\* keyword mode) is determined by the page list and the fetch outcomes.
C11_MergeLosesNothing ==
    /\ (mode = "link" /\ Started) =>
          \A t \in DOMAIN all_matches :
              /\ BagOf(all_matches[t]) = BagOf(MergedRecords(Len(futures), t))
              /\ pc = "done" => BagOf(all_matches[t]) = BagOf(RecordsOver(AnsweredUrls, t))
    /\ (mode = "keyword" /\ Started) =>
          /\ DOMAIN matches = {futures[i].url : i \in MergedMatched}
          /\ \A i \in MergedMatched :
                matches[futures[i].url] = futures[i].res.matched_sentences

\* A link-mode crawl has returned in which two different pages gave records
\* for T and the page submitted later was merged first.
C11_Witness ==
    /\ mode = "link"
    /\ pc = "done"
    /\ \E i, j \in 1..Len(futures) :
          /\ i < j
          /\ futures[i].url # futures[j].url
          /\ T \in DOMAIN futures[i].res.page_results
          /\ T \in DOMAIN futures[j].res.page_results
          /\ futures[i].res.page_results[T] # <<>>
          /\ futures[j].res.page_results[T] # <<>>
          /\ all_matches[T][1][1] = futures[j].url
\* The bucket sizes of the keyword-mode coordinator.
Tallied == Cardinality(DOMAIN matches) + Len(skipped_urls) + Len(no_keyword_urls)

\* C12: in keyword mode every submitted page ends classified as exactly one
\* of matched, contains_target_link, no_keywords_found, fetch_error and is
\* tallied in one bucket, so that when the crawl returns the buckets hold as
\* many pages as were submitted; only matched pages are in the matches.
C12_EveryPageTallied ==
    (mode = "keyword" /\ pc = "done") =>
        /\ \A i \in 1..Len(futures) :
              futures[i].res.reason \in
                 {"matched", "contains_target_link", "no_keywords_found", "fetch_error"}
        /\ Tallied = Len(futures)
        /\ \A u \in DOMAIN matches :
              \E i \in 1..Len(futures) :
                  futures[i].url = u /\ futures[i].res.reason = "matched"

\* C13: a page that answers without an article container is a no-match, not
\* an error: in link mode it contributes no record to any target, in keyword
\* mode it is classified no_keywords_found; nothing is raised.
C13_NoArticleIsNoMatch ==
    /\ pc # "crashed"
    /\ \A i \in 1..Len(futures) :
          (Fetched(i) /\ futures[i].net = "answer" /\ ~Web(futures[i].url).article) =>
              /\ ~futures[i].res.raised
              /\ mode = "link" =>
                    /\ \A t \in DOMAIN futures[i].res.page_results :
                          futures[i].res.page_results[t] = <<>>
                    /\ futures[i].st = "merged" =>
                          \A t \in DOMAIN all_matches :
                              \A k \in 1..Len(all_matches[t]) :
                                  all_matches[t][k][1] # futures[i].url
              /\ mode = "keyword" =>
                    /\ futures[i].res.reason = "no_keywords_found"
                    /\ futures[i].url \notin DOMAIN matches

\* A link-mode crawl for T and U has merged the answer of the page T, which
\* has no article and whose body links to U.
C13_Witness ==
    /\ mode = "link"
    /\ U \in Range(target_urls)
    /\ \E i \in 1..Len(futures) :
          /\ futures[i].st = "merged"
          /\ futures[i].net = "answer"
          /\ futures[i].url = T
\* C17: crawl_and_search has returned only when every submitted task was
\* fetched, has completed and was merged; no fetch of the pass is pending or
\* in flight then.
C17_ReturnsAfterAllMerged ==
    pc = "done" =>
        /\ \A i \in 1..Len(futures) : futures[i].st = "merged"
        /\ Running = {}
        /\ Len(requested) = Len(futures)

\* A crawl of at least two pages has returned.
C17_Witness == pc = "done" /\ Len(futures) >= 2

\* What the page at url gives for target t when t is searched alone.
AloneRecords(url, t) ==
    LET pr == fetch_and_search_link(url, "answer", {t}).page_results
    IN IF t \in DOMAIN pr THEN pr[t] ELSE <<>>

RECURSIVE AloneMerged(_, _)
AloneMerged(n, t) ==
    IF n = 0 THEN <<>>
    ELSE AloneMerged(n - 1, t)
         \o (IF futures[n].st = "merged" /\ futures[n].net = "answer"
             THEN AloneRecords(futures[n].url, t) ELSE <<>>)

\* C18: in link mode the records under a target are, as a multiset, those a
\* search for that target alone gives over the same pages: the other targets
\* add, remove and change nothing.
C18_TargetsIndependent ==
    (mode = "link" /\ Started) =>
        \A t \in DOMAIN all_matches :
            BagOf(all_matches[t]) = BagOf(AloneMerged(Len(futures), t))

\* A crawl for T and U has returned with records under both, the page PA
\* giving one to each.
C18_Witness ==
    /\ mode = "link"
    /\ pc = "done"
    /\ target_urls = <<T, U>>
    /\ all_matches[T] # <<>>
    /\ all_matches[U] # <<>>
    /\ \E k \in 1..Len(all_matches[T]) : all_matches[T][k][1] = PA

\* The matching anchors of the first k anchors of the page at url, in
\* document order.
RECURSIVE DocOrder(_, _, _)
DocOrder(url, k, t) ==
    IF k = 0 THEN <<>>
    ELSE DocOrder(url, k - 1, t)
         \o (IF urljoin(url, Web(url).anchors[k].href) = t
             THEN << <<url, Web(url).anchors[k].text>> >> ELSE <<>>)

\* The block of records the fetch of task i gives for target t.
BlockOf(i, t) ==
    IF futures[i].net = "answer" /\ Web(futures[i].url).article
    THEN DocOrder(futures[i].url, Len(Web(futures[i].url).anchors), t)
    ELSE <<>>

FailedFetches == {i \in 1..Len(futures) : futures[i].net # "answer"}

\* The tasks whose page was fetched successfully and holds an article.
SuccessfulWithArticle ==
    {i \in 1..Len(futures) :
        /\ futures[i].net = "answer"
        /\ Is2xx(Web(futures[i].url).status)
        /\ Web(futures[i].url).article}

\* The three counts the closing log lines do carry, against what happened,
\* a page being counted whatever its status.
SummaryCountsAgree ==
    (mode = "link" /\ pc = "done") =>
        /\ report.pages = Len(futures)
        /\ completed = Len(futures)
        /\ report.pages_with_article =
              Cardinality({i \in 1..Len(futures) :
                  futures[i].net = "answer" /\ Web(futures[i].url).article})
        /\ report.total_matches = TotalLen(all_matches)

\* C20: after a link-mode crawl the reported summary agrees with what
\* happened: pages processed is the number of pages submitted, pages with a
\* content container is the number of pages fetched successfully that have an
\* article, total matches is the number of records returned, and the number
\* of fetch errors is reported.
C20_SummaryCounts ==
    (mode = "link" /\ pc = "done") =>
        /\ report.pages = Len(futures)
        /\ report.pages_with_article = Cardinality(SuccessfulWithArticle)
        /\ report.total_matches = TotalLen(all_matches)
        /\ "errors" \in DOMAIN report
        /\ report.errors = Cardinality(FailedFetches)

\* The concatenation of the page lists of the given sub-sitemap locations.
RECURSIVE ConcatPages(_)
ConcatPages(urls) ==
    IF urls = <<>> THEN <<>>
    ELSE ConcatPages(Front(urls)) \o SitemapPages(urls[Len(urls)])

\* The entries of the indexes that were fetched and parsed, in fetch order.
RECURSIVE ConcatIndexes(_)
ConcatIndexes(results) ==
    IF results = <<>> THEN <<>>
    ELSE LET r == results[Len(results)]
         IN ConcatIndexes(Front(results)) \o
            (IF r.net = "answer" THEN SitemapIndex(IndexUrl(r.base)) ELSE <<>>)

\* The locations of the sub-sitemap tasks that succeeded, in submission order.
Succeeded ==
    LET ok == SelectSeq(sm_futures, LAMBDA f : f.net = "answer")
    IN [i \in 1..Len(ok) |-> ok[i].url]

\* C14: for an index of N sub-sitemap entries the resolver issues exactly N
\* sub-sitemap fetches, one per entry also when entries repeat, and when
\* they all succeed it returns a sequence whose multiset of page URLs is the
\* concatenation of the URLs of all N sub-sitemaps, duplicates kept,
\* whatever the order in which the fetches complete.
C14_OneFetchPerEntry ==
    pc = "resolved" =>
        /\ Len(sm_requested) = Len(all_sitemap_urls)
        /\ BagOf(sm_requested) = BagOf(all_sitemap_urls)
        /\ (\A i \in 1..Len(sm_futures) : sm_futures[i].net = "answer") =>
              BagOf(resolved) = BagOf(ConcatPages(all_sitemap_urls))

\* An index with a repeated entry was resolved, every sub-sitemap answered,
\* and the fetches completed in another order than they were submitted.
C14_Witness ==
    /\ pc = "resolved"
    /\ all_sitemap_urls = <<S1, S2, S1>>
    /\ \A i \in 1..Len(sm_futures) : sm_futures[i].net = "answer"
    /\ resolved = <<PA, PA, T, PA, T>>

\* C15: sitemap failures are isolated: a site whose index fails contributes
\* no sub-sitemap while the entries of every other index are all fetched, a
\* sub-sitemap that fails contributes an empty list only, the result is the
\* concatenation of the page URLs of the sub-sitemaps that succeeded, and no
\* exception reaches the caller.
C15_SitemapFailuresIsolated ==
    /\ pc # "crashed"
    /\ pc \in {"sitemaps", "resolved"} =>
          /\ all_sitemap_urls = ConcatIndexes(index_results)
          /\ {index_results[k].base : k \in 1..Len(index_results)}
                = BaseUrls(mode, target_urls)
    /\ pc = "resolved" =>
          /\ BagOf(sm_requested) = BagOf(all_sitemap_urls)
          /\ BagOf(resolved) = BagOf(ConcatPages(Succeeded))

\* The index of y.com failed and the entries of x.com were all fetched; of
\* these one sub-sitemap failed and the two others contributed their pages.
C15_Witness ==
    /\ pc = "resolved"
    /\ \E k \in 1..Len(index_results) :
          index_results[k] = [base |-> SiteRoot(V), net |-> "invalid"]
    /\ all_sitemap_urls = <<S1, S2, S1>>
    /\ sm_futures[1].net = "answer"
    /\ sm_futures[2].net = "invalid"
    /\ sm_futures[3].net = "answer"
    /\ resolved = <<PA, T, PA, T>>

\* C16: at every moment of a crawl at most MAX_WORKERS_CRAWL page fetches are
\* in flight and at every moment of sitemap resolution at most
\* MAX_WORKERS_SITEMAP sub-sitemap fetches are in flight, whatever the
\* number of pages or sub-sitemaps submitted.
C16_PoolsBounded ==
    /\ Cardinality(Running) <= MAX_WORKERS_CRAWL
    /\ Cardinality(SitemapRunning) <= MAX_WORKERS_SITEMAP

\* A pool is full while a submitted task still waits for a worker: the crawl
\* pool during a crawl, the sitemap pool during a resolution.
C16_Witness ==
    \/ /\ pc = "crawling"
       /\ Cardinality(Running) = MAX_WORKERS_CRAWL
       /\ \E i \in 1..Len(futures) : futures[i].st = "queued"
    \/ /\ pc = "sitemaps"
       /\ Cardinality(SitemapRunning) = MAX_WORKERS_SITEMAP
       /\ \E i \in 1..Len(sm_futures) : sm_futures[i].st = "queued"

\* The sentences of a text, in document order: each runs from the word after
\* the previous terminator through its own terminator; words after the last
\* terminator belong to no sentence.
Sentences(tx) ==
    LET ends == SelectSeq([i \in 1..Len(tx) |-> i], LAMBDA i : tx[i] \in Terminators)
        start(e) == 1 + Cardinality({j \in 1..(e - 1) :
                            \E m \in j..(e - 1) : tx[m] \in Terminators})
    IN [n \in 1..Len(ends) |-> SubSeq(tx, start(ends[n]), ends[n])]

\* The whole-word occurrences of a keyword in a run of words, case ignored.
Occurrences(words, keyword) ==
    Cardinality({i \in 1..Len(words) : Lower(words[i]) = Lower(keyword)})

\* n copies of x
Repeat(x, n) == [i \in 1..n |-> x]

\* Each sentence listed once for each occurrence of the keyword in it.
RECURSIVE PerOccurrence(_, _)
PerOccurrence(sentences, keyword) ==
    IF sentences = <<>> THEN <<>>
    ELSE PerOccurrence(Front(sentences), keyword) \o
         Repeat(sentences[Len(sentences)],
                Occurrences(sentences[Len(sentences)], keyword))

\* Each sentence that holds the keyword listed once.
OncePerSentence(sentences, keyword) ==
    SelectSeq(sentences, LAMBDA sn : Occurrences(sn, keyword) >= 1)

\* C21 as stated: find_keywords_in_text lists the enclosing sentence once for
\* each whole-word occurrence of a keyword, so a sentence with k occurrences
\* of a keyword appears k times in that keyword's list, and a keyword with
\* no occurrence has no entry in the mapping.
C21_SentencePerOccurrence ==
    pc = "found" =>
        \A kw \in Range(Keywords) :
            /\ kw \in DOMAIN matched_sentences =>
                  matched_sentences[kw] = PerOccurrence(Sentences(text), kw)
            /\ Occurrences(text, kw) = 0 => kw \notin DOMAIN matched_sentences

\* C21 amended: find_keywords_in_text lists, in document order, each
\* terminated sentence that holds at least one whole-word occurrence of the
\* keyword exactly once, however many occurrences it holds; a keyword that
\* occurs in no terminated sentence has no entry in the mapping, and no
\* entry is empty.
C21_SentenceOncePerKeyword ==
    pc = "found" =>
        /\ DOMAIN matched_sentences \subseteq Range(Keywords)
        /\ \A kw \in Range(Keywords) :
              LET expected == OncePerSentence(Sentences(text), kw)
              IN /\ kw \in DOMAIN matched_sentences <=> expected # <<>>
                 /\ kw \in DOMAIN matched_sentences =>
                       matched_sentences[kw] = expected

\* A sentence with two occurrences of "casino" is listed once, and "bonus",
\* which occurs only after the last terminator, has no entry.
C21_Witness ==
    /\ pc = "found"
    /\ text = <<"Casino", "casino", "!", "bonus">>
    /\ DOMAIN matched_sentences = {"casino"}
    /\ matched_sentences["casino"] = << <<"Casino", "casino", "!">> >>

====
